---- MODULE Spec2Model ----
(***************************************************************************)
(* Authentication and authorization layer of ToolJet:                      *)
(*   UsersService  (src/server/src/services/users.service.ts)              *)
(*   AuthService   (src/unnamed/part_000)                                  *)
(* The relational tables are the state; every service method is an action  *)
(* (update is split at the one point where another request can commit      *)
(* between its last-admin count query and its own commit).                 *)
(***************************************************************************)
EXTENDS Integers, FiniteSets, Sequences, TLC

VARIABLES
    users,                 \* users table: id -> row
    organizationUsers,     \* organization_users table: user id -> organization id -> status
    userGroupPermissions,  \* user_group_permissions table: set of rows
    appGroupPermissions,   \* app_group_permissions table: set of rows
    apps,                  \* apps table: app id -> owning user id
    tx,                    \* open update transactions, one slot per concurrent request
    uuidCount,             \* number of uuid.v4() values drawn so far
    mailbox,               \* emails handed to the mailer
    organizations,         \* organizations table: organization id -> name
    organizationUserTokens,\* organization_users.invitationToken: user id -> organization id -> token
    env,                   \* process.env.DISABLE_SIGNUPS
    result                 \* what the last service call was given and what it returned

vars == <<users, organizationUsers, userGroupPermissions, appGroupPermissions,
          apps, tx, uuidCount, mailbox, organizations, organizationUserTokens, env, result>>

----------------------------------------------------------------------------
(* Bounds and the finite universe of rows *)

MaxUuid == 2

Users == {"u1", "u2"}
Orgs == {"o1", "o2"}
Apps == {"a1", "a2"}
Procs == {"r1", "r2"}
Passwords == {"pw1", "pw2"}

\* an optional argument is a sequence of length 0 (not given) or 1 (given)
Absent == <<>>
Some(x) == <<x>>
IsGiven(opt) == Len(opt) = 1
Get(opt) == opt[1]

NoUser == "null"

Null == 0
Uuids == 1..MaxUuid

Email(u) == <<u, "@example.com">>
UnknownEmail == <<"nobody", "@example.com">>
Emails == {Email(u) : u \in Users} \cup {UnknownEmail}

\* organization_users.status; "none" stands for no membership row
Statuses == {"active", "invited", "archived"}
NoRow == "none"

\* organizationsService.create('Untitled organization')
DefaultOrganizationName == "Untitled organization"

\* an organization id that names no organization
UnknownOrg == "o9"
OrgIds == Orgs \cup {UnknownOrg}

\* bcrypt: the stored value is never the plain password
Hash(password) == <<"bcrypt", password>>
Compare(password, stored) == stored = Hash(password)

\* group_permissions table (seed rows of the two organizations; `builder` is a
\* custom group that exists in o1 only)
GroupPermissionId(o, g) == <<o, g>>

GroupPermissionRows ==
    {[id |-> GroupPermissionId(o, "admin"), organizationId |-> o, group |-> "admin",
      appCreate |-> TRUE, appDelete |-> TRUE, folderCreate |-> TRUE] : o \in Orgs}
    \cup
    {[id |-> GroupPermissionId(o, "all_users"), organizationId |-> o, group |-> "all_users",
      appCreate |-> FALSE, appDelete |-> FALSE, folderCreate |-> FALSE] : o \in Orgs}
    \cup
    {[id |-> GroupPermissionId("o1", "builder"), organizationId |-> "o1", group |-> "builder",
      appCreate |-> TRUE, appDelete |-> FALSE, folderCreate |-> FALSE]}

GroupPermissionIds == {gp.id : gp \in GroupPermissionRows}

UserGroupPermissionRow(u, gpId) == [userId |-> u, groupPermissionId |-> gpId]

\* the organizationId an entity loaded by the ORM carries: the user's own organization
LoadedOrganizationId(u) == users[u].defaultOrganizationId

----------------------------------------------------------------------------
(* UsersService: lookups *)

\* the status of the user's organization_users row for the organization, if any
MembershipStatus(u, o) == IF o \in Orgs THEN organizationUsers[u][o] ELSE NoRow

\* findByEmail with the join on the organization but without the filter on status
findByEmail_AnyStatus(email, organisationId) ==
    IF ~IsGiven(organisationId)
    THEN IF \E u \in Users : users[u].email = email
         THEN CHOOSE u \in Users : users[u].email = email
         ELSE NoUser
    ELSE IF \E u \in Users : /\ users[u].email = email
                             /\ MembershipStatus(u, Get(organisationId)) # NoRow
         THEN CHOOSE u \in Users : /\ users[u].email = email
                                   /\ MembershipStatus(u, Get(organisationId)) # NoRow
         ELSE NoUser

\* findByEmail(email, organisationId?)
findByEmail(email, organisationId) ==
    IF ~IsGiven(organisationId)
    THEN IF \E u \in Users : users[u].email = email
         THEN CHOOSE u \in Users : users[u].email = email
         ELSE NoUser
    ELSE IF \E u \in Users : /\ users[u].email = email
                             /\ MembershipStatus(u, Get(organisationId)) = "active"
         THEN CHOOSE u \in Users : /\ users[u].email = email
                                   /\ MembershipStatus(u, Get(organisationId)) = "active"
         ELSE NoUser

\* findByPasswordResetToken(token)
findByPasswordResetToken(token) ==
    IF \E u \in Users : users[u].forgotPasswordToken = token
    THEN CHOOSE u \in Users : users[u].forgotPasswordToken = token
    ELSE NoUser

\* status(user): findOne({ where: { user } }) returns one membership row of the
\* user, whichever the database yields first; the set of statuses it can return
status(u) == {organizationUsers[u][o] : o \in {x \in Orgs : organizationUsers[u][x] # NoRow}}

----------------------------------------------------------------------------
(* UsersService: group membership changes *)

\* the count query of throwErrorIfRemovingLastActiveAdmin
OtherActiveAdminCount(userId, organizationId) ==
    Cardinality({v \in Users :
        /\ v # userId
        /\ \E o \in Orgs : organizationUsers[v][o] = "active"
        /\ UserGroupPermissionRow(v, GroupPermissionId(organizationId, "admin"))
               \in userGroupPermissions})

\* TRUE iff throwErrorIfRemovingLastActiveAdmin throws BadRequest
throwErrorIfRemovingLastActiveAdmin(userId, organizationId, removeGroups) ==
    IF "admin" \notin removeGroups
    THEN FALSE
    ELSE OtherActiveAdminCount(userId, organizationId) = 0

NoError == "none"
LastAdminMessage == "Atleast one active admin is required."
DefaultGroupMessage == "Cannot remove user from default group."
NoSuchGroupMessage == "group does not exist for current organization"

\* removeUserGroupPermissionsIfExists without the check of `all_users`
RemoveError_NoDefaultGroupCheck(userId, organizationId, removeGroups) ==
    IF ~IsGiven(removeGroups)
    THEN NoError
    ELSE IF throwErrorIfRemovingLastActiveAdmin(userId, organizationId, Get(removeGroups))
         THEN LastAdminMessage
         ELSE NoError

\* the BadRequest removeUserGroupPermissionsIfExists throws before its delete, if any
RemoveError(userId, organizationId, removeGroups) ==
    IF ~IsGiven(removeGroups)
    THEN NoError
    ELSE IF throwErrorIfRemovingLastActiveAdmin(userId, organizationId, Get(removeGroups))
         THEN LastAdminMessage
         ELSE IF "all_users" \in Get(removeGroups)
              THEN DefaultGroupMessage
              ELSE NoError

\* the rows removeUserGroupPermissionsIfExists deletes
RowsToRemove(userId, organizationId, removeGroups) ==
    IF ~IsGiven(removeGroups)
    THEN {}
    ELSE LET groupIdsToMaybeRemove ==
                 {gp.id : gp \in {r \in GroupPermissionRows :
                                     /\ r.group \in Get(removeGroups)
                                     /\ r.organizationId = organizationId}}
         IN  {r \in userGroupPermissions :
                 /\ r.groupPermissionId \in groupIdsToMaybeRemove
                 /\ r.userId = userId}

\* groupPermissionsForOrganization(organizationId)
groupPermissionsForOrganization(organizationId) ==
    {gp \in GroupPermissionRows : gp.organizationId = organizationId}

\* TRUE iff addUserGroupPermissions throws BadRequest (a group that does not exist)
AddThrows(organizationId, addGroups) ==
    /\ IsGiven(addGroups)
    /\ \E group \in Get(addGroups) :
           ~\E gp \in groupPermissionsForOrganization(organizationId) : gp.group = group

\* the rows addUserGroupPermissions saves
RowsToAdd(userId, organizationId, addGroups) ==
    IF ~IsGiven(addGroups)
    THEN {}
    ELSE {UserGroupPermissionRow(userId, gp.id) :
             gp \in {r \in groupPermissionsForOrganization(organizationId) :
                        r.group \in Get(addGroups)}}

\* update with cleanObject dropping null as well as undefined
UpdatedUser_NullDropped(row, params) ==
    [row EXCEPT
        !.forgotPasswordToken =
            IF IsGiven(params.forgotPasswordToken) /\ Get(params.forgotPasswordToken) # Null
            THEN Get(params.forgotPasswordToken)
            ELSE @,
        !.firstName = IF IsGiven(params.firstName) THEN Get(params.firstName) ELSE @,
        !.lastName = IF IsGiven(params.lastName) THEN Get(params.lastName) ELSE @,
        !.password =
            IF IsGiven(params.password) THEN Hash(Get(params.password)) ELSE @]

\* cleanObject(updateableParams) followed by manager.update(User, userId, ...):
\* a key whose value is undefined (not given) is left alone, null is written
UpdatedUser(row, params) ==
    [row EXCEPT
        !.forgotPasswordToken =
            IF IsGiven(params.forgotPasswordToken) THEN Get(params.forgotPasswordToken) ELSE @,
        !.firstName = IF IsGiven(params.firstName) THEN Get(params.firstName) ELSE @,
        !.lastName = IF IsGiven(params.lastName) THEN Get(params.lastName) ELSE @,
        !.password =
            IF IsGiven(params.password) THEN Hash(Get(params.password)) ELSE @]

----------------------------------------------------------------------------
(* UsersService.update(userId, params) run in its own transaction.          *)
(* UpdateBegin runs manager.update (which locks the user's row), findOne     *)
(* and the checks of removeUserGroupPermissionsIfExists; UpdateCommit runs   *)
(* the delete, addUserGroupPermissions and the commit.  Another request can  *)
(* commit between the two.                                                   *)

\* a transaction that commits what its callback wrote even when the callback throws
TransactionOutcome_NoRollback(threw, before, written) == written

\* getManager().transaction(callback): what the callback wrote is committed unless
\* it throws, and then the table is as it was before.  No caller passes a manager,
\* so update always runs in a transaction of its own.
TransactionOutcome(threw, before, written) == IF threw THEN before ELSE written

NoParams == [forgotPasswordToken |-> Absent, password |-> Absent,
             firstName |-> Absent, lastName |-> Absent,
             addGroups |-> Absent, removeGroups |-> Absent]

IdleTx == [pc |-> "idle", userId |-> NoUser, params |-> NoParams]

UpdateResult(kind, message, userId, params) ==
    [op |-> "update", kind |-> kind, message |-> message, userId |-> userId, params |-> params]

UpdateBegin(p, userId, params) ==
    /\ tx[p].pc = "idle"
    /\ \A q \in Procs : tx[q].userId # userId
    /\ IF RemoveError(userId, LoadedOrganizationId(userId), params.removeGroups) # NoError
       THEN /\ result' = UpdateResult("BadRequest",
                              RemoveError(userId, LoadedOrganizationId(userId), params.removeGroups),
                              userId, params)
            /\ users' = TransactionOutcome(TRUE, users,
                                           [users EXCEPT ![userId] = UpdatedUser(@, params)])
            /\ UNCHANGED tx
       ELSE /\ tx' = [tx EXCEPT ![p] = [pc |-> "checked", userId |-> userId, params |-> params]]
            /\ result' = UpdateResult("pending", NoError, userId, params)
            /\ UNCHANGED users
    /\ UNCHANGED <<organizationUsers, userGroupPermissions, appGroupPermissions,
                   apps, uuidCount, mailbox, organizations, organizationUserTokens, env>>

UpdateCommit(p) ==
    /\ tx[p].pc = "checked"
    /\ LET userId == tx[p].userId
           params == tx[p].params
           organizationId == LoadedOrganizationId(userId)
           threw == AddThrows(organizationId, params.addGroups)
       IN  /\ users' = TransactionOutcome(threw, users,
                                          [users EXCEPT ![userId] = UpdatedUser(@, params)])
           /\ userGroupPermissions' =
                  TransactionOutcome(threw, userGroupPermissions,
                      (userGroupPermissions
                           \ RowsToRemove(userId, organizationId, params.removeGroups))
                      \cup RowsToAdd(userId, organizationId, params.addGroups))
           /\ result' = IF threw
                        THEN UpdateResult("BadRequest", NoSuchGroupMessage, userId, params)
                        ELSE UpdateResult("ok", NoError, userId, params)
    /\ tx' = [tx EXCEPT ![p] = IdleTx]
    /\ UNCHANGED <<organizationUsers, appGroupPermissions, apps, uuidCount, mailbox,
                   organizations, organizationUserTokens, env>>

----------------------------------------------------------------------------
(* Initial tables *)

NoResult == [op |-> "none", kind |-> "none"]

UserRow(u, password, organizationId) ==
    [id |-> u, email |-> Email(u), password |-> Hash(password),
     firstName |-> "", lastName |-> "",
     invitationToken |-> Null, forgotPasswordToken |-> Null,
     defaultOrganizationId |-> organizationId]

\* every member of an organization is in its all_users group
AllUsersRows(memberships) ==
    {UserGroupPermissionRow(u, GroupPermissionId(o, "all_users")) :
        <<u, o>> \in {m \in Users \X Orgs : memberships[m[1]][m[2]] # NoRow}}

AdminRows(memberships) ==
    {UserGroupPermissionRow(u, GroupPermissionId(o, "admin")) :
        <<u, o>> \in {m \in Users \X Orgs : memberships[m[1]][m[2]] # NoRow}}

\* the organization has an active member holding its admin group
HasActiveAdmin(o) ==
    \E u \in Users :
        /\ organizationUsers[u][o] = "active"
        /\ UserGroupPermissionRow(u, GroupPermissionId(o, "admin")) \in userGroupPermissions

InitTables(statuses) ==
    /\ \E d \in [Users -> Orgs] : users = [u \in Users |-> UserRow(u, "pw1", d[u])]
    /\ organizationUsers \in [Users -> [Orgs -> statuses \cup {NoRow}]]
    /\ \A u \in Users : organizationUsers[u][users[u].defaultOrganizationId] # NoRow
    /\ \E admins \in SUBSET AdminRows(organizationUsers) :
           userGroupPermissions = AllUsersRows(organizationUsers) \cup admins
    /\ \A o \in Orgs : HasActiveAdmin(o)
    /\ appGroupPermissions = {}
    /\ apps = [a \in Apps |-> IF a = "a1" THEN "u1" ELSE "u2"]
    /\ tx = [p \in Procs |-> IdleTx]
    /\ uuidCount = 0
    /\ mailbox = {}
    /\ organizations = [o \in Orgs |-> DefaultOrganizationName]
    /\ organizationUserTokens = [u \in Users |-> [o \in Orgs |-> Null]]
    /\ env = "false"
    /\ result = NoResult

RemoveGroupsInputs ==
    {Absent, Some({"admin"}), Some({"all_users"}), Some({"admin", "all_users"}), Some({"builder"})}

AddGroupsInputs == {Absent, Some({"builder"})}

GroupParams ==
    {[NoParams EXCEPT !.addGroups = a, !.removeGroups = r] :
        a \in AddGroupsInputs, r \in RemoveGroupsInputs}

Init == InitTables({"active", "archived"})

Next ==
    \/ \E p \in Procs, u \in Users, params \in GroupParams : UpdateBegin(p, u, params)
    \/ \E p \in Procs : UpdateCommit(p)

Spec == Init /\ [][Next]_vars

\* the same requests, started where every holder of an admin group is an active
\* member of that group's organization
InitRace ==
    /\ InitTables({"active", "archived"})
    /\ \A u \in Users, o \in Orgs :
           UserGroupPermissionRow(u, GroupPermissionId(o, "admin")) \in userGroupPermissions
               => organizationUsers[u][o] = "active"

SpecRace == InitRace /\ [][Next]_vars

----------------------------------------------------------------------------
(* AuthService *)

\* jwtService.sign(payload) and the claims a verified token decodes to
Sign(payload) == <<"jwt", payload>>
Claims(token) == token[2]
NoToken == <<"jwt">>

\* validateUser(email, password, organisationId?)
validateUser(email, password, organisationId) ==
    LET user == findByEmail(email, organisationId)
    IN  IF user = NoUser
        THEN NoUser
        ELSE IF Compare(password, users[user].password) THEN user ELSE NoUser

\* what `await this.usersService.status(user)` can evaluate to; a user without
\* any membership row makes it throw (orgUser is undefined)
StatusOutcomes(u) == IF status(u) = {} THEN {NoRow} ELSE status(u)

LoginResult(op, kind, who, email, password, organizationId, token) ==
    [op |-> op, kind |-> kind, id |-> who, email |-> email, password |-> password,
     organizationId |-> organizationId, token |-> token]

\* login({ email, password, organizationId })
Login(email, password, organizationId) ==
    /\ LET user == validateUser(email, password, organizationId)
       IN  IF user = NoUser
           THEN result' = LoginResult("login", "Unauthorized", NoUser, email, password,
                                      organizationId, NoToken)
           ELSE \E st \in StatusOutcomes(user) :
                    result' =
                        IF st = NoRow
                        THEN LoginResult("login", "TypeError", NoUser, email, password,
                                         organizationId, NoToken)
                        ELSE IF st # "archived"
                        THEN LET userOrganizationId ==
                                     IF IsGiven(organizationId)
                                     THEN Get(organizationId)
                                     ELSE users[user].defaultOrganizationId
                             IN  LoginResult("login", "ok", user, email, password, organizationId,
                                     Sign([username |-> users[user].id,
                                           sub |-> users[user].email,
                                           organizationId |-> userOrganizationId]))
                        ELSE LoginResult("login", "Unauthorized", NoUser, email, password,
                                         organizationId, NoToken)
    /\ UNCHANGED <<users, organizationUsers, userGroupPermissions, appGroupPermissions,
                   apps, tx, uuidCount, mailbox, organizations, organizationUserTokens, env>>

\* switchOrganization(newOrganizationId, user)
SwitchOrganization(newOrganizationId, user) ==
    /\ LET newUser == findByEmail(users[user].email, Some(newOrganizationId))
       IN  IF newUser = NoUser
           THEN result' = LoginResult("switchOrganization", "Unauthorized", user,
                                      users[user].email, Absent, Some(newOrganizationId), NoToken)
           ELSE \E st \in StatusOutcomes(newUser) :
                    result' =
                        IF st \notin {NoRow, "archived"}
                        THEN LoginResult("switchOrganization", "ok", user, users[user].email,
                                     Absent, Some(newOrganizationId),
                                     Sign([username |-> users[user].id,
                                           sub |-> users[user].email,
                                           organizationId |-> newOrganizationId]))
                        ELSE LoginResult("switchOrganization",
                                     IF st = NoRow THEN "TypeError" ELSE "Unauthorized",
                                     user, users[user].email, Absent, Some(newOrganizationId),
                                     NoToken)
    /\ UNCHANGED <<users, organizationUsers, userGroupPermissions, appGroupPermissions,
                   apps, tx, uuidCount, mailbox, organizations, organizationUserTokens, env>>

PasswordResult(op, kind, email, token, password) ==
    [op |-> op, kind |-> kind, email |-> email, token |-> token, password |-> password]

\* forgotPassword(email); update() waits for the user's row while another update holds it
ForgotPassword(email) ==
    LET user == findByEmail(email, Absent)
    IN  IF user = NoUser
        THEN /\ result' = PasswordResult("forgotPassword", "TypeError", email, Null, Absent)
             /\ UNCHANGED <<users, organizationUsers, userGroupPermissions,
                            appGroupPermissions, apps, tx, uuidCount, mailbox, organizations, organizationUserTokens, env>>
        ELSE /\ uuidCount < MaxUuid
             /\ \A q \in Procs : tx[q].userId # user
             /\ LET forgotPasswordToken == uuidCount + 1
                    params == [NoParams EXCEPT !.forgotPasswordToken = Some(forgotPasswordToken)]
                IN  /\ users' = [users EXCEPT ![user] = UpdatedUser(@, params)]
                    /\ mailbox' = mailbox \cup {<<email, forgotPasswordToken>>}
                    /\ result' = PasswordResult("forgotPassword", "ok", email,
                                                forgotPasswordToken, Absent)
             /\ uuidCount' = uuidCount + 1
             /\ UNCHANGED <<organizationUsers, userGroupPermissions, appGroupPermissions,
                            apps, tx, organizations, organizationUserTokens, env>>

\* resetPassword(token, password)
ResetPassword(token, password) ==
    LET user == findByPasswordResetToken(token)
    IN  IF user = NoUser
        THEN /\ result' = PasswordResult("resetPassword", "NotFound", UnknownEmail, token,
                                         Some(password))
             /\ UNCHANGED <<users, organizationUsers, userGroupPermissions,
                            appGroupPermissions, apps, tx, uuidCount, mailbox, organizations, organizationUserTokens, env>>
        ELSE /\ \A q \in Procs : tx[q].userId # user
             /\ LET params == [NoParams EXCEPT !.password = Some(password),
                                               !.forgotPasswordToken = Some(Null)]
                IN  users' = [users EXCEPT ![user] = UpdatedUser(@, params)]
             /\ result' = PasswordResult("resetPassword", "ok", users[user].email, token,
                                         Some(password))
             /\ UNCHANGED <<organizationUsers, userGroupPermissions, appGroupPermissions,
                            apps, tx, uuidCount, mailbox, organizations, organizationUserTokens, env>>

\* the second user is an active member of o2 only; the first user's memberships vary
InitAuth ==
    /\ \E d \in Orgs : users = [u \in Users |->
                                  IF u = "u1" THEN UserRow(u, "pw1", d) ELSE UserRow(u, "pw2", "o2")]
    /\ organizationUsers \in [Users -> [Orgs -> Statuses \cup {NoRow}]]
    /\ organizationUsers["u2"] = [o \in Orgs |-> IF o = "o2" THEN "active" ELSE NoRow]
    /\ organizationUsers["u1"][users["u1"].defaultOrganizationId] # NoRow
    /\ userGroupPermissions =
           AllUsersRows(organizationUsers)
               \cup {UserGroupPermissionRow("u2", GroupPermissionId("o2", "admin"))}
    /\ appGroupPermissions = {}
    /\ apps = [a \in Apps |-> IF a = "a1" THEN "u1" ELSE "u2"]
    /\ tx = [p \in Procs |-> IdleTx]
    /\ uuidCount = 0
    /\ mailbox = {}
    /\ organizations = [o \in Orgs |-> DefaultOrganizationName]
    /\ organizationUserTokens = [u \in Users |-> [o \in Orgs |-> Null]]
    /\ env = "false"
    /\ result = NoResult

NextAuth ==
    \/ \E email \in Emails, password \in Passwords, organizationId \in {Absent} \cup {Some(o) : o \in OrgIds} :
           Login(email, password, organizationId)
    \/ \E newOrganizationId \in OrgIds, user \in Users : SwitchOrganization(newOrganizationId, user)
    \/ \E email \in Emails : ForgotPassword(email)
    \/ \E token \in Uuids, password \in Passwords : ResetPassword(token, password)

SpecAuth == InitAuth /\ [][NextAuth]_vars

----------------------------------------------------------------------------
(* Signup and account setup from an invitation *)

\* a users row that does not exist yet
NoUserRow ==
    [id |-> NoUser, email |-> <<>>, password |-> <<>>, firstName |-> "", lastName |-> "",
     invitationToken |-> Null, forgotPasswordToken |-> Null, defaultOrganizationId |-> NoRow]

NoInvitation == <<>>

\* setupAccountFromInvitationToken: the user and the membership the token resolves to;
\* on the new-signup path the token is looked up on the users row and the membership
\* is the one of the user's default organization, otherwise the token is looked up
\* on the organization_users row
ResolveInvitation(token, newSignup) ==
    IF newSignup
    THEN IF \E u \in Users : users[u].id # NoUser /\ users[u].invitationToken = token
         THEN LET u == CHOOSE v \in Users : users[v].id # NoUser /\ users[v].invitationToken = token
              IN  IF MembershipStatus(u, users[u].defaultOrganizationId) # NoRow
                  THEN <<u, users[u].defaultOrganizationId>>
                  ELSE NoInvitation
         ELSE NoInvitation
    ELSE IF \E u \in Users, o \in Orgs :
                organizationUsers[u][o] # NoRow /\ organizationUserTokens[u][o] = token
         THEN CHOOSE m \in Users \X Orgs :
                  /\ organizationUsers[m[1]][m[2]] # NoRow
                  /\ organizationUserTokens[m[1]][m[2]] = token
         ELSE NoInvitation

\* the save without invitationToken: null
SetupUser_TokenKept(row, firstName, lastName, password) ==
    [row EXCEPT !.firstName = firstName, !.lastName = lastName, !.password = Hash(password)]

\* Object.assign(user, { firstName, lastName, password, role, invitationToken: null })
\* and save; the stored password is the hash login compares with
SetupUser(row, firstName, lastName, password) ==
    [row EXCEPT !.firstName = firstName, !.lastName = lastName,
                !.password = Hash(password), !.invitationToken = Null]

SetupResult(kind, token, newSignup, organization, invitation) ==
    [op |-> "setupAccount", kind |-> kind, token |-> token, newSignup |-> newSignup,
     organization |-> organization, invitation |-> invitation]

\* setupAccountFromInvitationToken(params)
SetupAccountFromInvitationToken(token, newSignup, organization, firstName, lastName, password) ==
    LET invitation == ResolveInvitation(token, newSignup)
    IN  IF invitation = NoInvitation
        THEN /\ result' = SetupResult("BadRequest", token, newSignup, organization, invitation)
             /\ UNCHANGED <<users, organizationUsers, userGroupPermissions,
                            appGroupPermissions, apps, tx, uuidCount, mailbox, organizations,
                            organizationUserTokens, env>>
        ELSE LET user == invitation[1]
                 organizationId == invitation[2]
             IN  /\ users' = [users EXCEPT
                                 ![user] = SetupUser(@, firstName, lastName, password)]
                 /\ organizationUserTokens' =
                        [organizationUserTokens EXCEPT ![user][organizationId] = Null]
                 /\ organizationUsers' =
                        [organizationUsers EXCEPT ![user][organizationId] = "active"]
                 /\ organizations' =
                        IF newSignup /\ IsGiven(organization)
                        THEN [organizations EXCEPT
                                 ![LoadedOrganizationId(user)] = Get(organization)]
                        ELSE organizations
                 /\ result' = SetupResult("ok", token, newSignup, organization, invitation)
                 /\ UNCHANGED <<userGroupPermissions, appGroupPermissions, apps, tx,
                                uuidCount, mailbox, env>>

\* process.env.DISABLE_SIGNUPS === 'TRUE'
SignupsDisabled_UpperCase(value) == value = "TRUE"

\* process.env.DISABLE_SIGNUPS === 'true'
SignupsDisabled(value) == value = "true"

\* create(): TRUE iff a group of `groups` does not exist in the organization
CreateThrows(organizationId, groups) ==
    \E group \in groups :
        ~\E gp \in GroupPermissionRows :
              gp.organizationId = organizationId /\ gp.group = group

\* create(): the user_group_permissions rows saved for the new user
CreatedGroupRows(u, organizationId, groups) ==
    {UserGroupPermissionRow(u, gp.id) :
        gp \in {r \in GroupPermissionRows :
                   r.organizationId = organizationId /\ r.group \in groups}}

\* create(): the users row saved; its password is a uuid nobody is told
CreatedUser(u, email, firstName, lastName, organizationId, invitationToken) ==
    [id |-> u, email |-> email, password |-> <<"uuid.v4">>,
     firstName |-> firstName, lastName |-> lastName,
     invitationToken |-> invitationToken, forgotPasswordToken |-> Null,
     defaultOrganizationId |-> organizationId]

SignupResult(kind, email) == [op |-> "signup", kind |-> kind, email |-> email, value |-> "{}"]

\* signup({ email }): the organization, the user with its groups and the membership
\* are three writes of their own; an email that is taken fails the second one
Signup(email) ==
    IF SignupsDisabled(env)
    THEN /\ result' = SignupResult("ok", email)
         /\ UNCHANGED <<users, organizationUsers, userGroupPermissions, appGroupPermissions,
                        apps, tx, uuidCount, mailbox, organizations, organizationUserTokens,
                        env>>
    ELSE \E o \in Orgs :
            /\ organizations[o] = NoRow
            /\ organizations' = [organizations EXCEPT ![o] = DefaultOrganizationName]
            /\ IF \E v \in Users : users[v].email = email
               THEN /\ result' = SignupResult("QueryFailedError", email)
                    /\ UNCHANGED <<users, organizationUsers, userGroupPermissions,
                                   uuidCount, mailbox>>
               ELSE \E u \in Users :
                       /\ users[u].id = NoUser
                       /\ uuidCount < MaxUuid
                       /\ uuidCount' = uuidCount + 1
                       /\ users' = [users EXCEPT
                                       ![u] = CreatedUser(u, email, "", "", o, uuidCount + 1)]
                       /\ userGroupPermissions' =
                              userGroupPermissions
                                  \cup CreatedGroupRows(u, o, {"all_users", "admin"})
                       /\ organizationUsers' = [organizationUsers EXCEPT ![u][o] = "invited"]
                       /\ mailbox' = mailbox \cup {<<"welcome", email, uuidCount + 1>>}
                       /\ result' = SignupResult("ok", email)
            /\ UNCHANGED <<appGroupPermissions, apps, tx, organizationUserTokens, env>>

OrganizationNames == {Absent, Some("Acme")}

\* u1 is the admin of o1, active or with its signup still to be completed; o2 is the
\* organization of u2, with u1 possibly invited into it, or does not exist yet and
\* then u2 may exist as a member of o1
InitInvite ==
    /\ \E pending \in BOOLEAN, second \in {"none", "member", "owner", "inviter"} :
         LET t1 == IF pending THEN 1 ELSE Null
             n1 == IF pending THEN 1 ELSE 0
             t2 == IF second = "inviter" THEN n1 + 1 ELSE Null
         IN  /\ users = [u \in Users |->
                           IF u = "u1"
                           THEN [UserRow(u, "pw1", "o1") EXCEPT !.invitationToken = t1]
                           ELSE IF second = "none" THEN NoUserRow
                           ELSE IF second = "member" THEN UserRow(u, "pw2", "o1")
                           ELSE UserRow(u, "pw2", "o2")]
             /\ organizationUsers = [u \in Users |-> [o \in Orgs |->
                           IF u = "u1" /\ o = "o1" THEN (IF pending THEN "invited" ELSE "active")
                           ELSE IF u = "u1" /\ o = "o2" /\ second = "inviter" THEN "invited"
                           ELSE IF u = "u2" /\ o = "o1" /\ second = "member" THEN "active"
                           ELSE IF u = "u2" /\ o = "o2" /\ second \in {"owner", "inviter"}
                                THEN "active"
                           ELSE NoRow]]
             /\ organizationUserTokens = [u \in Users |-> [o \in Orgs |->
                           IF u = "u1" /\ o = "o2" THEN t2 ELSE Null]]
             /\ organizations = [o \in Orgs |->
                           IF o = "o1" \/ second \in {"owner", "inviter"}
                           THEN DefaultOrganizationName ELSE NoRow]
             /\ uuidCount = n1 + (IF second = "inviter" THEN 1 ELSE 0)
    /\ userGroupPermissions =
           AllUsersRows(organizationUsers)
               \cup {UserGroupPermissionRow("u1", GroupPermissionId("o1", "admin"))}
               \cup {UserGroupPermissionRow("u2", GroupPermissionId("o2", "admin")) :
                        x \in {o \in {"o2"} : organizationUsers["u2"][o] # NoRow}}
    /\ appGroupPermissions = {}
    /\ apps = [a \in Apps |-> "u1"]
    /\ tx = [p \in Procs |-> IdleTx]
    /\ mailbox = {}
    /\ env \in {"true", "false", "unset"}
    /\ result = NoResult

NextInvite ==
    \/ \E email \in Emails : Signup(email)
    \/ \E token \in Uuids, newSignup \in BOOLEAN, organization \in OrganizationNames,
          password \in Passwords :
           SetupAccountFromInvitationToken(token, newSignup, organization, "Ann", "Lee", password)

SpecInvite == InitInvite /\ [][NextInvite]_vars

----------------------------------------------------------------------------
(* UsersService.create and update with profile fields, one request at a time *)

CreateResult(kind, user, email, organizationId, groups) ==
    [op |-> "create", kind |-> kind, user |-> user, email |-> email,
     organizationId |-> organizationId, groups |-> groups]

\* create(userParams, organizationId, groups?): the users row and the group rows are
\* saved in one transaction; an email that is taken fails the first save, groups
\* left undefined fail the loop, a group unknown to the organization throws BadRequest
Create(email, organizationId, groups) ==
    IF \E v \in Users : users[v].email = email
    THEN /\ result' = CreateResult("QueryFailedError", NoUser, email, organizationId, groups)
         /\ UNCHANGED <<users, organizationUsers, userGroupPermissions, appGroupPermissions,
                        apps, tx, uuidCount, mailbox, organizations, organizationUserTokens,
                        env>>
    ELSE \E u \in Users :
            /\ users[u].id = NoUser
            /\ uuidCount < MaxUuid
            /\ LET threw == ~IsGiven(groups) \/ CreateThrows(organizationId, Get(groups))
                   rows == IF IsGiven(groups)
                           THEN CreatedGroupRows(u, organizationId, Get(groups))
                           ELSE {}
               IN  /\ users' = TransactionOutcome(threw, users,
                                   [users EXCEPT
                                       ![u] = CreatedUser(u, email, "", "", organizationId,
                                                          uuidCount + 1)])
                   /\ userGroupPermissions' =
                          TransactionOutcome(threw, userGroupPermissions,
                                             userGroupPermissions \cup rows)
                   /\ uuidCount' = IF threw THEN uuidCount ELSE uuidCount + 1
                   /\ result' = CreateResult(IF ~IsGiven(groups) THEN "TypeError"
                                             ELSE IF threw THEN "BadRequest" ELSE "ok",
                                             u, email, organizationId, groups)
            /\ UNCHANGED <<organizationUsers, appGroupPermissions, apps, tx, mailbox,
                           organizations, organizationUserTokens, env>>

CreateGroupsInputs ==
    {Absent, Some({"all_users"}), Some({"all_users", "builder"}), Some({"nogroup"}),
     Some({"all_users", "nogroup"})}

ProfileParams ==
    {NoParams,
     [NoParams EXCEPT !.firstName = Some("Ann"), !.lastName = Some("Lee"),
                      !.password = Some("pw2"), !.forgotPasswordToken = Some(1)]}

AtomicParams ==
    {[f EXCEPT !.addGroups = a, !.removeGroups = r] :
        f \in ProfileParams,
        a \in {Absent, Some({"builder"}), Some({"nogroup"}), Some({"builder", "nogroup"})},
        r \in {Absent, Some({"admin"}), Some({"all_users"}), Some({"builder"})}}

\* u1 is an active admin of o1; u2 does not exist yet, or is a member or a second
\* admin of o1, or the admin of o2
InitAtomic ==
    /\ \E second \in {"none", "member", "admin", "owner"} :
         /\ users = [u \in Users |->
                       IF u = "u1" THEN UserRow(u, "pw1", "o1")
                       ELSE IF second = "none" THEN NoUserRow
                       ELSE UserRow(u, "pw1", IF second = "owner" THEN "o2" ELSE "o1")]
         /\ organizationUsers = [u \in Users |-> [o \in Orgs |->
                       IF u = "u1" /\ o = "o1" THEN "active"
                       ELSE IF u = "u2" /\ o = "o1" /\ second \in {"member", "admin"}
                            THEN "active"
                       ELSE IF u = "u2" /\ o = "o2" /\ second = "owner" THEN "active"
                       ELSE NoRow]]
         /\ userGroupPermissions =
                AllUsersRows(organizationUsers)
                    \cup {UserGroupPermissionRow("u1", GroupPermissionId("o1", "admin"))}
                    \cup (IF second = "admin"
                          THEN {UserGroupPermissionRow("u2", GroupPermissionId("o1", "admin"))}
                          ELSE IF second = "owner"
                          THEN {UserGroupPermissionRow("u2", GroupPermissionId("o2", "admin"))}
                          ELSE {})
    /\ appGroupPermissions = {}
    /\ apps = [a \in Apps |-> "u1"]
    /\ tx = [p \in Procs |-> IdleTx]
    /\ uuidCount = 0
    /\ mailbox = {}
    /\ organizations = [o \in Orgs |-> DefaultOrganizationName]
    /\ organizationUserTokens = [u \in Users |-> [o \in Orgs |-> Null]]
    /\ env = "false"
    /\ result = NoResult

\* update is called for users that exist
NextAtomic ==
    \/ \E email \in Emails, organizationId \in Orgs, groups \in CreateGroupsInputs :
           Create(email, organizationId, groups)
    \/ \E u \in {v \in Users : users[v].id # NoUser}, params \in AtomicParams :
           UpdateBegin("r1", u, params)
    \/ UpdateCommit("r1")

SpecAtomic == InitAtomic /\ [][NextAtomic]_vars

----------------------------------------------------------------------------
(* UsersService.userCan and its lookups.  A `user` argument is the request's  *)
(* user: its id and the organizationId of the session.                        *)

UnknownApp == "a9"
AppIds == Apps \cup {UnknownApp}

SessionUser(u, o) == [id |-> u, organizationId |-> o]

\* userGroupPermissions without the filter on the organization of the group
userGroupPermissionsQuery_AnyOrganization(user, organizationId) ==
    {r \in userGroupPermissions : r.userId = user.id}

\* userGroupPermissions(user, organizationId?)
userGroupPermissionsQuery(user, organizationId) ==
    LET orgId == IF IsGiven(organizationId) THEN Get(organizationId) ELSE user.organizationId
    IN  {r \in userGroupPermissions :
            /\ \E gp \in GroupPermissionRows :
                   gp.id = r.groupPermissionId /\ gp.organizationId = orgId
            /\ r.userId = user.id}

\* hasGroup(user, group, organizationId?)
hasGroup(user, group, organizationId) ==
    LET orgId == IF IsGiven(organizationId) THEN Get(organizationId) ELSE user.organizationId
    IN  Cardinality({gp \in GroupPermissionRows :
            /\ gp.organizationId = orgId
            /\ gp.group = group
            /\ UserGroupPermissionRow(user.id, gp.id) \in userGroupPermissions}) > 0

\* groupPermissions(user, organizationId?)
groupPermissions(user, organizationId) ==
    LET groupIds == {r.groupPermissionId : r \in userGroupPermissionsQuery(user, organizationId)}
    IN  {gp \in GroupPermissionRows : gp.id \in groupIds}

\* appGroupPermissions(user, appId?, organizationId?)
appGroupPermissionsQuery(user, appId, organizationId) ==
    LET groupIds == {r.groupPermissionId : r \in userGroupPermissionsQuery(user, organizationId)}
    IN  IF IsGiven(appId)
        THEN {r \in appGroupPermissions :
                 r.groupPermissionId \in groupIds /\ r.appId = Get(appId)}
        ELSE {r \in appGroupPermissions : r.groupPermissionId \in groupIds}

\* canAnyGroupPerformAction(action, permissions)
canAnyGroupPerformAction(action, permissions) == \E q \in permissions : q[action]

\* isUserOwnerOfApp(user, appId): a where-condition whose value is undefined is
\* left out of the query by the ORM
isUserOwnerOfApp(user, appId) ==
    IF IsGiven(appId)
    THEN \E a \in Apps : a = Get(appId) /\ apps[a] = user.id
    ELSE \E a \in Apps : apps[a] = user.id

\* canUserPerformActionOnApp with `delete` decided by the groups alone
canUserPerformActionOnApp_DeleteByGroups(user, action, appId) ==
    CASE action = "create" ->
             canAnyGroupPerformAction("appCreate", groupPermissions(user, Absent))
      [] action \in {"read", "update"} ->
             \/ canAnyGroupPerformAction(action, appGroupPermissionsQuery(user, appId, Absent))
             \/ isUserOwnerOfApp(user, appId)
      [] action = "delete" ->
             \/ canAnyGroupPerformAction("delete", appGroupPermissionsQuery(user, appId, Absent))
             \/ canAnyGroupPerformAction("appDelete", groupPermissions(user, Absent))
      [] OTHER -> FALSE

\* canUserPerformActionOnApp(user, action, appId?)
canUserPerformActionOnApp(user, action, appId) ==
    CASE action = "create" ->
             canAnyGroupPerformAction("appCreate", groupPermissions(user, Absent))
      [] action \in {"read", "update"} ->
             \/ canAnyGroupPerformAction(action, appGroupPermissionsQuery(user, appId, Absent))
             \/ isUserOwnerOfApp(user, appId)
      [] action = "delete" ->
             \/ canAnyGroupPerformAction("delete", appGroupPermissionsQuery(user, appId, Absent))
             \/ canAnyGroupPerformAction("appDelete", groupPermissions(user, Absent))
             \/ isUserOwnerOfApp(user, appId)
      [] OTHER -> FALSE

\* canUserPerformActionOnFolder(user, action, folderId?)
canUserPerformActionOnFolder(user, action, folderId) ==
    CASE action = "create" ->
             canAnyGroupPerformAction("folderCreate", groupPermissions(user, Absent))
      [] OTHER -> FALSE

\* userCan(user, action, entityName, resourceId?)
userCan(user, action, entityName, resourceId) ==
    CASE entityName = "App" -> canUserPerformActionOnApp(user, action, resourceId)
      [] entityName = "User" -> hasGroup(user, "admin", Absent)
      [] entityName \in {"Thread", "Comment"} ->
             canUserPerformActionOnApp(user, "update", resourceId)
      [] entityName = "Folder" -> canUserPerformActionOnFolder(user, action, resourceId)
      [] OTHER -> FALSE

Actions == {"create", "read", "update", "delete"}
EntityNames == {"App", "User", "Thread", "Comment", "Folder", "DataSource"}
ResourceIds == {Absent} \cup {Some(a) : a \in AppIds}

\* the request asks whether its user may act (userCan reads the tables and writes
\* nothing, so one call per behaviour covers every call)
UserCan(u, o, action, entityName, resourceId) ==
    /\ result = NoResult
    /\ result' = [op |-> "userCan", user |-> SessionUser(u, o), action |-> action,
                  entityName |-> entityName, resourceId |-> resourceId,
                  value |-> userCan(SessionUser(u, o), action, entityName, resourceId)]
    /\ UNCHANGED <<users, organizationUsers, userGroupPermissions, appGroupPermissions,
                   apps, tx, uuidCount, mailbox, organizations, organizationUserTokens, env>>

AppGroupPermissionRow(gpId, appId, read, update, delete) ==
    [groupPermissionId |-> gpId, appId |-> appId, read |-> read, update |-> update,
     delete |-> delete]

AppGroupPermissionCandidates ==
    {AppGroupPermissionRow(GroupPermissionId("o1", "all_users"), "a1", TRUE, FALSE, FALSE),
     AppGroupPermissionRow(GroupPermissionId("o1", "all_users"), "a2", TRUE, TRUE, FALSE),
     AppGroupPermissionRow(GroupPermissionId("o1", "builder"), "a1", TRUE, TRUE, TRUE),
     AppGroupPermissionRow(GroupPermissionId("o2", "admin"), "a2", TRUE, TRUE, TRUE)}

\* both users are active members of both organizations and u2 administers both;
\* the groups of u1, the owner of a1 and the app-group-permission rows vary
InitCan ==
    /\ users = [u \in Users |-> UserRow(u, "pw1", IF u = "u1" THEN "o1" ELSE "o2")]
    /\ organizationUsers = [u \in Users |-> [o \in Orgs |-> "active"]]
    /\ \E groups \in SUBSET {GroupPermissionId("o1", "admin"), GroupPermissionId("o2", "admin"),
                             GroupPermissionId("o1", "builder")} :
           userGroupPermissions =
               AllUsersRows(organizationUsers)
                   \cup {UserGroupPermissionRow("u2", GroupPermissionId(o, "admin")) : o \in Orgs}
                   \cup {UserGroupPermissionRow("u1", g) : g \in groups}
    /\ appGroupPermissions \in SUBSET AppGroupPermissionCandidates
    /\ \E owner \in Users : apps = [a \in Apps |-> IF a = "a1" THEN owner ELSE "u2"]
    /\ tx = [p \in Procs |-> IdleTx]
    /\ uuidCount = 0
    /\ mailbox = {}
    /\ organizations = [o \in Orgs |-> DefaultOrganizationName]
    /\ organizationUserTokens = [u \in Users |-> [o \in Orgs |-> Null]]
    /\ env = "false"
    /\ result = NoResult

NextCan ==
    \E u \in Users, o \in Orgs, action \in Actions, entityName \in EntityNames,
       resourceId \in ResourceIds :
        UserCan(u, o, action, entityName, resourceId)

SpecCan == InitCan /\ [][NextCan]_vars

----------------------------------------------------------------------------
(* Group membership: last active admin and the default group *)

HoldsGroup(u, o, g) ==
    UserGroupPermissionRow(u, GroupPermissionId(o, g)) \in userGroupPermissions

\* no user other than userId is an active member of the organization holding its admin group
NoOtherActiveAdmin(userId, o) ==
    ~\E v \in Users \ {userId} : organizationUsers[v][o] = "active" /\ HoldsGroup(v, o, "admin")

RemovesGroup(r, g) ==
    /\ r.op = "update"
    /\ IsGiven(r.params.removeGroups)
    /\ g \in Get(r.params.removeGroups)

\* C1: starting with an active admin in every organization, after any interleaving
\* of update calls every organization still has an active member holding its admin group
C1_EveryOrganizationKeepsAnActiveAdmin == \A o \in Orgs : HasActiveAdmin(o)

\* C2: an update removing `admin` is rejected with BadRequest when no other user is an
\* active member of the organization holding its admin group, and otherwise passes the
\* check and, once committed, leaves the user without `admin`
C2_LastActiveAdminIsProtected ==
    [][RemovesGroup(result', "admin") =>
         LET u == result'.userId
             o == LoadedOrganizationId(u)
         IN  /\ NoOtherActiveAdmin(u, o) => result'.kind # "pending"
             /\ (~NoOtherActiveAdmin(u, o) /\ ~RemovesGroup(result', "all_users"))
                    => result'.message \notin {LastAdminMessage, DefaultGroupMessage}
             /\ result'.kind = "ok" =>
                    UserGroupPermissionRow(u, GroupPermissionId(o, "admin"))
                        \notin userGroupPermissions']_vars

\* C3: an update whose removeGroups contains `all_users` fails with BadRequest and
\* removes no group membership, whatever else removeGroups names
C3_AllUsersRemovalAlwaysFails ==
    [][RemovesGroup(result', "all_users") =>
         /\ result'.kind = "BadRequest"
         /\ userGroupPermissions' = userGroupPermissions]_vars

\* an update of a user holding `admin` beside another active admin, asked to remove
\* both `admin` and `all_users`, was rejected for the default group
C3_Witness ==
    /\ RemovesGroup(result, "all_users")
    /\ RemovesGroup(result, "admin")
    /\ result.kind = "BadRequest"
    /\ result.message = DefaultGroupMessage
    /\ HoldsGroup(result.userId, LoadedOrganizationId(result.userId), "admin")
    /\ HoldsGroup(result.userId, LoadedOrganizationId(result.userId), "all_users")

----------------------------------------------------------------------------
(* Login, organization switch and password reset *)

EmailOwner(email) ==
    IF \E u \in Users : users[u].email = email
    THEN CHOOSE u \in Users : users[u].email = email
    ELSE NoUser

\* the given organizationId, or the user's default organization when none is given
EffectiveOrganization(u, organizationId) ==
    IF IsGiven(organizationId) THEN Get(organizationId) ELSE users[u].defaultOrganizationId

\* the email exists, the password matches the stored hash and the membership in the
\* effective organization is active
ValidLogin(r) ==
    /\ EmailOwner(r.email) # NoUser
    /\ Compare(r.password, users[EmailOwner(r.email)].password)
    /\ MembershipStatus(EmailOwner(r.email),
                        EffectiveOrganization(EmailOwner(r.email), r.organizationId)) = "active"

\* C4: login returns a token only for an existing email, a matching password and an
\* active membership in the effective organization; every other login fails with
\* the one Unauthorized error
C4_LoginRequiresActiveMembership ==
    [][result'.op = "login" =>
         /\ result'.kind = "ok" => ValidLogin(result')
         /\ ~ValidLogin(result') => result'.kind = "Unauthorized"]_vars

\* C5: a login with correct credentials by a user whose membership in the effective
\* organization is active succeeds, and the token's claims are username = the user's
\* id, sub = the user's email, organizationId = the effective organization
C5_ValidLoginSucceeds ==
    [][(result'.op = "login" /\ ValidLogin(result')) =>
         /\ result'.kind = "ok"
         /\ Claims(result'.token) =
                [username |-> EmailOwner(result'.email),
                 sub |-> result'.email,
                 organizationId |->
                     EffectiveOrganization(EmailOwner(result'.email), result'.organizationId)]]_vars

\* C6: switchOrganization fails with Unauthorized whenever the current user has no
\* active membership in the new organization, and a token it issues carries the new
\* organization and the same user's id and email
C6_SwitchRequiresActiveMembership ==
    [][result'.op = "switchOrganization" =>
         /\ MembershipStatus(result'.id, Get(result'.organizationId)) # "active"
                => result'.kind = "Unauthorized"
         /\ result'.kind = "ok" =>
                Claims(result'.token) =
                    [username |-> result'.id,
                     sub |-> users[result'.id].email,
                     organizationId |-> Get(result'.organizationId)]]_vars

\* a user whose membership in their default organization is not active switched to
\* another organization and got a token for it
C6_Witness ==
    /\ result.op = "switchOrganization"
    /\ result.kind = "ok"
    /\ Get(result.organizationId) # users[result.id].defaultOrganizationId
    /\ Claims(result.token).organizationId = Get(result.organizationId)
    /\ MembershipStatus(result.id, users[result.id].defaultOrganizationId) # "active"

\* C10: resetPassword with a token stored on no user fails with NotFound and changes
\* nothing; with a stored token it sets that user's password and clears the token, after
\* which no user holds the token and a second use of it fails with NotFound
C10_ResetTokenIsSingleUse ==
    [][result'.op = "resetPassword" =>
         /\ (result.op = "resetPassword" /\ result.kind = "ok" /\ result.token = result'.token)
                => result'.kind = "NotFound"
         /\ IF \A u \in Users : users[u].forgotPasswordToken # result'.token
            THEN /\ result'.kind = "NotFound"
                 /\ UNCHANGED <<users, organizationUsers, userGroupPermissions,
                                appGroupPermissions, apps, mailbox, organizations,
                                organizationUserTokens>>
            ELSE /\ result'.kind = "ok"
                 /\ \A u \in Users :
                        IF users[u].forgotPasswordToken = result'.token
                        THEN /\ users'[u].password = Hash(Get(result'.password))
                             /\ users'[u].forgotPasswordToken = Null
                        ELSE users'[u] = users[u]
                 /\ \A u \in Users : users'[u].forgotPasswordToken # result'.token]_vars

\* the token mailed to u1 by forgotPassword was used once (the password is the new one,
\* the token is cleared) and its second use has just failed with NotFound
C10_Witness ==
    /\ result.op = "resetPassword"
    /\ result.kind = "NotFound"
    /\ <<users["u1"].email, result.token>> \in mailbox
    /\ uuidCount = 1
    /\ users["u1"].forgotPasswordToken = Null
    /\ users["u1"].password = Hash("pw2")

----------------------------------------------------------------------------
(* userCan *)

AsksAbout(r, entityName, actions) ==
    /\ r.op = "userCan"
    /\ r.entityName = entityName
    /\ r.action \in actions

OwnsResource(r) ==
    /\ IsGiven(r.resourceId)
    /\ Get(r.resourceId) \in Apps
    /\ apps[Get(r.resourceId)] = r.user.id

\* the groups of the user's current organization that the user belongs to
GroupsInCurrentOrganization(user) ==
    {gp \in GroupPermissionRows :
        /\ gp.organizationId = user.organizationId
        /\ UserGroupPermissionRow(user.id, gp.id) \in userGroupPermissions}

\* C7: userCan(user, read | update | delete, 'App', appId) is true for the owner of
\* the app, whatever the groups grant
C7_OwnerMayReadUpdateDelete ==
    (AsksAbout(result, "App", {"read", "update", "delete"}) /\ OwnsResource(result))
        => result.value = TRUE

\* the owner of an app who is in no group that grants delete, on the app or on all
\* apps, asked to delete it and may
C7_Witness ==
    /\ AsksAbout(result, "App", {"delete"})
    /\ OwnsResource(result)
    /\ \A gp \in GroupsInCurrentOrganization(result.user) :
           /\ ~gp.appDelete
           /\ \A r \in appGroupPermissions : r.groupPermissionId = gp.id => ~r.delete
    /\ result.value = TRUE

\* C8: for a user who does not own the app, userCan(user, read | update, 'App',
\* resourceId) is true only if a group of the user in the current organization has
\* an app-group-permission row for that same app with the flag set, for every
\* resourceId including an absent one
C8_GrantNeedsRowOfTheSameApp ==
    (/\ AsksAbout(result, "App", {"read", "update"})
     /\ \A a \in Apps : apps[a] # result.user.id
     /\ result.value = TRUE)
        => \E r \in appGroupPermissions :
               /\ \E gp \in GroupsInCurrentOrganization(result.user) :
                      gp.id = r.groupPermissionId
               /\ IsGiven(result.resourceId)
               /\ r.appId = Get(result.resourceId)
               /\ r[result.action]

\* C9: userCan for a 'User' action, App/create and Folder/create is decided by the
\* user's memberships in groups of the current organization alone
C9_GroupDecisionsAreScopedToCurrentOrganization ==
    /\ result.op = "userCan" =>
           /\ groupPermissions(result.user, Absent) = GroupsInCurrentOrganization(result.user)
           /\ \A g \in {"admin", "all_users", "builder"} :
                  hasGroup(result.user, g, Absent)
                      <=> \E gp \in GroupsInCurrentOrganization(result.user) : gp.group = g
    /\ AsksAbout(result, "User", Actions) =>
           (result.value <=> \E gp \in GroupsInCurrentOrganization(result.user) :
                                 gp.group = "admin")
    /\ AsksAbout(result, "App", {"create"}) =>
           (result.value <=> \E gp \in GroupsInCurrentOrganization(result.user) : gp.appCreate)
    /\ AsksAbout(result, "Folder", {"create"}) =>
           (result.value <=> \E gp \in GroupsInCurrentOrganization(result.user) :
                                 gp.folderCreate)

\* a user who holds `admin` in another organization, but only `all_users` in the
\* current one, asked to create an app and may not
C9_Witness ==
    /\ AsksAbout(result, "App", {"create"})
    /\ \E gp \in GroupPermissionRows :
           /\ gp.organizationId # result.user.organizationId
           /\ gp.group = "admin"
           /\ UserGroupPermissionRow(result.user.id, gp.id) \in userGroupPermissions
    /\ \A gp \in GroupsInCurrentOrganization(result.user) : gp.group = "all_users"
    /\ result.value = FALSE

----------------------------------------------------------------------------
(* Claim C11 *)

\* the invitation `token` resolves to user u and its membership of organization o:
\* on the new-signup path u carries the token and o is u's default organization,
\* otherwise the membership row of u in o carries the token
InvitationOf(token, newSignup, u, o) ==
    /\ users[u].id # NoUser
    /\ organizationUsers[u][o] # NoRow
    /\ IF newSignup
       THEN users[u].invitationToken = token /\ o = users[u].defaultOrganizationId
       ELSE organizationUserTokens[u][o] = token

----------------------------------------------------------------------------
(* Claim C12 *)

GroupRowsOf(u) == {r \in userGroupPermissions : r.userId = u}

\* a group of `groups` does not exist in organization o
UnknownGroupIn(o, groups) ==
    \E g \in groups : ~\E gp \in GroupPermissionRows : gp.organizationId = o /\ gp.group = g

\* C12: create and update in a transaction of their own are atomic and reject unknown
\* groups: a user's row (profile fields, password, reset token) and group memberships
\* change only in the step that ends a successful create or update of that user, so a
\* failed update leaves them as they were before the call and a failed create persists
\* no user row, no group row and no membership row; an update that adds a group
\* unknown to the user's organization ends with BadRequest, and so does a create with
\* such a group once its email is free
C12_FailedCreateAndUpdateWriteNothing ==
    [][/\ \A u \in Users :
            (users'[u] # users[u] \/ GroupRowsOf(u)' # GroupRowsOf(u)) =>
                /\ result'.kind = "ok"
                /\ result'.op \in {"create", "update"}
                /\ result'.op = "create" => result'.user = u
                /\ result'.op = "update" => result'.userId = u
       /\ (result'.op = "create" /\ result'.kind # "ok") =>
              UNCHANGED <<users, userGroupPermissions, organizationUsers>>
       /\ (result'.op = "update" /\ result'.kind = "BadRequest") =>
              UNCHANGED <<users, userGroupPermissions, organizationUsers>>
       /\ (/\ result'.op = "create"
           /\ IsGiven(result'.groups)
           /\ UnknownGroupIn(result'.organizationId, Get(result'.groups))) =>
              IF \E v \in Users : users[v].email = result'.email
              THEN result'.kind = "QueryFailedError"
              ELSE result'.kind = "BadRequest"
       /\ \A u \in Users :
              (/\ result'.op = "update"
               /\ result'.userId = u
               /\ result'.kind # "pending"
               /\ IsGiven(result'.params.addGroups)
               /\ UnknownGroupIn(users[u].defaultOrganizationId,
                                 Get(result'.params.addGroups))) =>
                  result'.kind = "BadRequest"
      ]_vars

\* an update that set the profile fields, removed a group and added an unknown group
\* has failed, and the user's row and the group to remove are still there
C12_Witness ==
    /\ result.op = "update"
    /\ result.kind = "BadRequest"
    /\ result.message = NoSuchGroupMessage
    /\ result.params.firstName = Some("Ann")
    /\ result.params.removeGroups = Some({"admin"})
    /\ users[result.userId].firstName = ""
    /\ UserGroupPermissionRow(result.userId,
                              GroupPermissionId(users[result.userId].defaultOrganizationId,
                                                "admin")) \in userGroupPermissions

----------------------------------------------------------------------------
(* Claim C13 *)

\* C13: when DISABLE_SIGNUPS is "true", signup returns the empty result for every
\* email and writes nothing: no organization, user, membership or group-membership
\* row is created and no email is sent
C13_DisabledSignupWritesNothing ==
    [][(result'.op = "signup" /\ env = "true") =>
          /\ result'.kind = "ok"
          /\ result'.value = "{}"
          /\ UNCHANGED <<organizations, users, organizationUsers, organizationUserTokens,
                         userGroupPermissions, uuidCount, mailbox>>
      ]_vars

\* signup was called with signups disabled for an email nobody has, where an
\* organization and a user could have been created
C13_Witness ==
    /\ result.op = "signup"
    /\ env = "true"
    /\ \A v \in Users : users[v].email # result.email
    /\ \E o \in Orgs : organizations[o] = NoRow
    /\ \E u \in Users : users[u].id = NoUser
    /\ uuidCount < MaxUuid

====
